---- MODULE Spec2Model ----
(***************************************************************************)
(* Model of src/app/app.py: the MARC/MARD obsolete-field scanner.          *)
(*                                                                         *)
(* A text is a sequence of character code points (Latin-1 range), offsets  *)
(* are 0-based as in Python, spans are <<start, end>> half-open pairs.     *)
(* Table and field names are sequences of code points as well.             *)
(***************************************************************************)
EXTENDS Integers, Sequences, FiniteSets, TLC

VARIABLES
    code,              \* u.code of the unit handed to remediate_array
    pc,                \* position inside remediate_array's loop body
    sql_hits,          \* the value scan_sql(src) returned
    decl_hits,         \* the value scan_declarations(src) returned
    selects_metadata,  \* the list being built for the unit
    results            \* remediate_array's return value

vars == <<code, pc, sql_hits, decl_hits, selects_metadata, results>>

-----------------------------------------------------------------------------
(* Names appearing in the source, as code-point sequences.                 *)

SELECT == <<83,69,76,69,67,84>>
FROM == <<70,82,79,77>>
TYPE == <<84,89,80,69>>
LIKE == <<76,73,75,69>>
MARC == <<77,65,82,67>>
MARD == <<77,65,82,68>>
MEGRU == <<77,69,71,82,85>>
USEQU == <<85,83,69,81,85>>
ALTSL == <<65,76,84,83,76>>
MDACH == <<77,68,65,67,72>>
DPLFS == <<68,80,76,70,83>>
DPLPU == <<68,80,76,80,85>>
DPLHO == <<68,80,76,72,79>>
FHORI == <<70,72,79,82,73>>
DISKZ == <<68,73,83,75,90>>
LSOBS == <<76,83,79,66,83>>
LMINB == <<76,77,73,78,66>>
LBSTF == <<76,66,83,84,70>>

None == <<>>

OBSOLETE_FIELDS ==
    (MARC :> <<MEGRU, USEQU, ALTSL, MDACH, DPLFS, DPLPU, DPLHO, FHORI>>)
    @@ (MARD :> <<DISKZ, LSOBS, LMINB, LBSTF>>)

InList(x, list) == \E i \in DOMAIN list : list[i] = x

\* variant: the set is built from the first table only
OBSOLETE_FIELDNAMES_first_table ==
    {OBSOLETE_FIELDS[MARC][i] : i \in DOMAIN OBSOLETE_FIELDS[MARC]}

OBSOLETE_FIELDNAMES ==
    UNION { {OBSOLETE_FIELDS[tbl][i] : i \in DOMAIN OBSOLETE_FIELDS[tbl]} :
            tbl \in DOMAIN OBSOLETE_FIELDS }

-----------------------------------------------------------------------------
(* Python's str and re primitives on Latin-1 text.                         *)

\* s[a:b]
Slice(s, a, b) == SubSeq(s, a + 1, b)

Min(S) == CHOOSE x \in S : \A y \in S : x <= y

\* \w of a str pattern: alphanumerics and the underscore
IsWordChar(c) ==
    \/ c \in 48..57 \/ c \in 65..90 \/ c = 95 \/ c \in 97..122
    \/ c \in {170, 178, 179, 181, 185, 186, 188, 189, 190}
    \/ (c \in 192..255 /\ c # 215 /\ c # 247)

\* \s of a str pattern, which is also what str.strip() removes
IsSpace(c) == c \in 9..13 \/ c \in 28..32 \/ c = 133 \/ c = 160

\* [A-Z0-9_] under re.IGNORECASE
IsFieldChar(c) == c \in 48..57 \/ c \in 65..90 \/ c = 95 \/ c \in 97..122

\* variant: the pattern is compiled without re.IGNORECASE
IgnoreCaseEq_exact(c, u) == c = u

\* one pattern letter (upper case in the source) against one character of
\* the text under re.IGNORECASE
IgnoreCaseEq(c, u) == c = u \/ (c \in 97..122 /\ c - 32 = u)

\* str.upper() of one character
upper_char(c) ==
    IF c \in 97..122 THEN <<c - 32>>
    ELSE IF c = 223 THEN <<83, 83>>
    ELSE IF c = 181 THEN <<924>>
    ELSE IF c = 255 THEN <<376>>
    ELSE IF c \in 224..254 /\ c # 247 THEN <<c - 32>>
    ELSE <<c>>

RECURSIVE upper(_)
upper(s) == IF s = <<>> THEN <<>> ELSE upper_char(Head(s)) \o upper(Tail(s))

\* \b at offset i of s
WordBoundary(s, i) ==
    (i > 0 /\ IsWordChar(s[i])) # (i < Len(s) /\ IsWordChar(s[i + 1]))

\* the literal lit matches s at offset i, ignoring case
LitAt(s, i, lit) ==
    /\ i + Len(lit) <= Len(s)
    /\ \A k \in 1..Len(lit) : IgnoreCaseEq(s[i + k], lit[k])

\* \bLIT\b at offset i
KeywordAt(s, i, lit) ==
    WordBoundary(s, i) /\ LitAt(s, i, lit) /\ WordBoundary(s, i + Len(lit))

\* (MARC|MARD) at offset i
TableAt(s, i) == LitAt(s, i, MARC) \/ LitAt(s, i, MARD)

\* end of the greedy run \s* starting at offset i
SpacesEnd(s, i) ==
    Min({j \in i..Len(s) : j = Len(s) \/ ~IsSpace(s[j + 1])})

\* end of the greedy run [A-Z0-9_]* starting at offset i
FieldEnd(s, i) ==
    Min({j \in i..Len(s) : j = Len(s) \/ ~IsFieldChar(s[j + 1])})

\* $ without re.MULTILINE: at the end, or before a final newline
DollarAt(s, i) == i = Len(s) \/ (i = Len(s) - 1 /\ s[Len(s)] = 10)

-----------------------------------------------------------------------------
(* SQL_STMT_RE                                                             *)

\* \bFROM\b\s+(?P<table>MARC|MARD)\b at offset j
FromTableAt(s, j) ==
    /\ KeywordAt(s, j, FROM)
    /\ LET k == SpacesEnd(s, j + 4)
       IN  k > j + 4 /\ TableAt(s, k) /\ WordBoundary(s, k + 4)

\* (?=\bSELECT\b|$) at offset e
StmtStopAt(s, e) == KeywordAt(s, e, SELECT) \/ DollarAt(s, e)

\* the pattern matches with its first character at offset i
StmtAt(s, i) ==
    KeywordAt(s, i, SELECT) /\ \E j \in (i + 6)..Len(s) : FromTableAt(s, j)

\* the match at offset i: both .*? take the shortest text that lets the
\* rest of the pattern match
StmtMatch(s, i) ==
    LET j == Min({x \in (i + 6)..Len(s) : FromTableAt(s, x)})
        k == SpacesEnd(s, j + 4)
        e == Min({x \in (k + 4)..Len(s) : StmtStopAt(s, x)})
    IN  [start |-> i, end |-> e, select_end |-> j, table_start |-> k]

RECURSIVE SQL_STMT_RE_from(_, _)
SQL_STMT_RE_from(s, p) ==
    LET starts == {i \in p..Len(s) : StmtAt(s, i)}
    IN  IF starts = {} THEN <<>>
        ELSE LET m == StmtMatch(s, Min(starts))
             IN  <<m>> \o SQL_STMT_RE_from(s, m.end)

\* SQL_STMT_RE.finditer(code)
SQL_STMT_RE(s) == SQL_STMT_RE_from(s, 0)

select_part(s, m) == Slice(s, m.start + 6, m.select_end)
table_group(s, m) == Slice(s, m.table_start, m.table_start + 4)
rest_part(s, m) == Slice(s, m.table_start + 4, m.end)

-----------------------------------------------------------------------------
(* QUALIFIED_FIELD_RE, DECLARATION_QUAL_RE, DECLARATION_DE_RE              *)

\* \b(MARC|MARD)-[A-Z0-9_]+\b at offset i of z
QualifiedAt(z, i) ==
    /\ WordBoundary(z, i)
    /\ TableAt(z, i)
    /\ i + 5 <= Len(z) /\ z[i + 5] = 45
    /\ FieldEnd(z, i + 5) > i + 5
    /\ WordBoundary(z, FieldEnd(z, i + 5))

RECURSIVE QUALIFIED_FIELD_RE_from(_, _)
QUALIFIED_FIELD_RE_from(z, p) ==
    LET starts == {i \in p..Len(z) : QualifiedAt(z, i)}
    IN  IF starts = {} THEN <<>>
        ELSE LET i == Min(starts)
                 e == FieldEnd(z, i + 5)
             IN  <<[start |-> i, end |-> e,
                    table |-> Slice(z, i, i + 4), field |-> Slice(z, i + 5, e)]>>
                 \o QUALIFIED_FIELD_RE_from(z, e)

\* QUALIFIED_FIELD_RE.finditer(z)
QUALIFIED_FIELD_RE(z) == QUALIFIED_FIELD_RE_from(z, 0)

\* \b(TYPE|LIKE)\b at offset i
DeclKeywordAt(s, i) == KeywordAt(s, i, TYPE) \/ KeywordAt(s, i, LIKE)

\* \b(TYPE|LIKE)\b\s+(MARC|MARD)-[A-Z0-9_]+ at offset i
DeclQualAt(s, i) ==
    /\ DeclKeywordAt(s, i)
    /\ LET k == SpacesEnd(s, i + 4)
       IN  /\ k > i + 4
           /\ TableAt(s, k)
           /\ k + 5 <= Len(s) /\ s[k + 5] = 45
           /\ FieldEnd(s, k + 5) > k + 5

RECURSIVE DECLARATION_QUAL_RE_from(_, _)
DECLARATION_QUAL_RE_from(s, p) ==
    LET starts == {i \in p..Len(s) : DeclQualAt(s, i)}
    IN  IF starts = {} THEN <<>>
        ELSE LET i == Min(starts)
                 k == SpacesEnd(s, i + 4)
                 e == FieldEnd(s, k + 5)
             IN  <<[start |-> i, end |-> e,
                    table |-> Slice(s, k, k + 4), field |-> Slice(s, k + 5, e)]>>
                 \o DECLARATION_QUAL_RE_from(s, e)

\* DECLARATION_QUAL_RE.finditer(code)
DECLARATION_QUAL_RE(s) == DECLARATION_QUAL_RE_from(s, 0)

\* \b(TYPE|LIKE)\b\s+[A-Z0-9_]+\b at offset i
DeclDeAt(s, i) ==
    /\ DeclKeywordAt(s, i)
    /\ LET k == SpacesEnd(s, i + 4)
       IN  /\ k > i + 4
           /\ FieldEnd(s, k) > k
           /\ WordBoundary(s, FieldEnd(s, k))

RECURSIVE DECLARATION_DE_RE_from(_, _)
DECLARATION_DE_RE_from(s, p) ==
    LET starts == {i \in p..Len(s) : DeclDeAt(s, i)}
    IN  IF starts = {} THEN <<>>
        ELSE LET i == Min(starts)
                 k == SpacesEnd(s, i + 4)
                 e == FieldEnd(s, k)
             IN  <<[start |-> i, end |-> e, fieldname |-> Slice(s, k, e)]>>
                 \o DECLARATION_DE_RE_from(s, e)

\* variant: the pattern skips an optional table prefix,
\* \b(TYPE|LIKE)\b\s+(?:(?:MARC|MARD)-)?[A-Z0-9_]+\b
DeclDeNameStart(s, i) ==
    LET k == SpacesEnd(s, i + 4)
    IN  IF TableAt(s, k) /\ k + 5 <= Len(s) /\ s[k + 5] = 45
           /\ FieldEnd(s, k + 5) > k + 5 /\ WordBoundary(s, FieldEnd(s, k + 5))
        THEN k + 5 ELSE k

RECURSIVE DECLARATION_DE_RE_prefix_from(_, _)
DECLARATION_DE_RE_prefix_from(s, p) ==
    LET starts == {i \in p..Len(s) : DeclDeAt(s, i)}
    IN  IF starts = {} THEN <<>>
        ELSE LET i == Min(starts)
                 k == DeclDeNameStart(s, i)
                 e == FieldEnd(s, k)
             IN  <<[start |-> i, end |-> e, fieldname |-> Slice(s, k, e)]>>
                 \o DECLARATION_DE_RE_prefix_from(s, e)

DECLARATION_DE_RE_optional_table(s) == DECLARATION_DE_RE_prefix_from(s, 0)

\* DECLARATION_DE_RE.finditer(code)
DECLARATION_DE_RE(s) == DECLARATION_DE_RE_from(s, 0)

-----------------------------------------------------------------------------
(* todo_comment, todo_comment_dataelement                                  *)

todo_comment(table, field) ==
    <<"* TODO: ", upper(table), "-", upper(field),
      " is obsolete in S/4HANA (SAP Note 2267246). ",
      "The related functionality is no longer available; remove or replace usage.">>

todo_comment_dataelement(field) ==
    <<"* TODO: Data element ", upper(field),
      " relates to obsolete field in S/4HANA (SAP Note 2267246). ",
      "Remove or replace usage.">>

-----------------------------------------------------------------------------
(* scan_sql                                                                *)

Finding(tbl, fld, span, text) ==
    [table |-> tbl, field |-> fld, span |-> span, suggested_statement |-> text]

\* the loops of lines 87-96 and 111-120 over one zone
RECURSIVE QualifiedHitsOf(_)
QualifiedHitsOf(fms) ==
    IF fms = <<>> THEN <<>>
    ELSE LET fm == Head(fms)
             tbl == upper(fm.table)
             fld == upper(fm.field)
         IN  (IF tbl \in DOMAIN OBSOLETE_FIELDS /\ InList(fld, OBSOLETE_FIELDS[tbl])
              THEN <<Finding(tbl, fld, <<fm.start, fm.end>>, todo_comment(tbl, fld))>>
              ELSE <<>>)
             \o QualifiedHitsOf(Tail(fms))

QualifiedHits(zone) == QualifiedHitsOf(QUALIFIED_FIELD_RE(zone))

\* str.strip()
strip(z) ==
    LET keep == {i \in 1..Len(z) : ~IsSpace(z[i])}
    IN  IF keep = {} THEN <<>>
        ELSE SubSeq(z, Min(keep), CHOOSE x \in keep : \A y \in keep : y <= x)

IsSeparator(c) == c = 44 \/ IsSpace(c)

\* re.split(r"[,\s]+", z)
RECURSIVE split(_)
split(z) ==
    LET seps == {i \in 1..Len(z) : IsSeparator(z[i])}
    IN  IF seps = {} THEN <<z>>
        ELSE LET a == Min(seps)
                 b == Min({j \in a..Len(z) : j = Len(z) \/ ~IsSeparator(z[j + 1])})
             IN  <<SubSeq(z, 1, a - 1)>> \o split(SubSeq(z, b + 1, Len(z)))

\* fld.replace(".", "")
RECURSIVE remove_periods(_)
remove_periods(t) ==
    IF t = <<>> THEN <<>>
    ELSE (IF Head(t) = 46 THEN <<>> ELSE <<Head(t)>>) \o remove_periods(Tail(t))

fields_raw(zone) == split(strip(zone))

\* OBSOLETE_FIELDS.get(table, [])
ObsoleteOf(table) ==
    IF table \in DOMAIN OBSOLETE_FIELDS THEN OBSOLETE_FIELDS[table] ELSE <<>>

\* the loop of lines 100-108
RECURSIVE UnqualifiedHitsOf(_, _, _)
UnqualifiedHitsOf(tokens, table, span) ==
    IF tokens = <<>> THEN <<>>
    ELSE LET fld_up == upper(remove_periods(Head(tokens)))
         IN  (IF InList(fld_up, ObsoleteOf(table))
              THEN <<Finding(table, fld_up, span, todo_comment(table, fld_up))>>
              ELSE <<>>)
             \o UnqualifiedHitsOf(Tail(tokens), table, span)

\* variant: the hit is anchored at the selection list, not at the statement
UnqualifiedHits_select_span(s, m) ==
    UnqualifiedHitsOf(fields_raw(select_part(s, m)),
                      upper(table_group(s, m)), <<m.start, m.select_end>>)

UnqualifiedHits(s, m) ==
    UnqualifiedHitsOf(fields_raw(select_part(s, m)),
                      upper(table_group(s, m)), <<m.start, m.end>>)

\* variant: the tokens of the remainder are looked up as well
StmtHits_rescan_rest(s, m) ==
    QualifiedHits(select_part(s, m))
    \o UnqualifiedHits(s, m)
    \o QualifiedHits(rest_part(s, m))
    \o UnqualifiedHitsOf(fields_raw(rest_part(s, m)),
                         upper(table_group(s, m)), <<m.start, m.end>>)

\* what one iteration of the loop of line 81 appends
StmtHits(s, m) ==
    QualifiedHits(select_part(s, m))
    \o UnqualifiedHits(s, m)
    \o QualifiedHits(rest_part(s, m))

RECURSIVE StmtHitsOfAll(_, _)
StmtHitsOfAll(s, ms) ==
    IF ms = <<>> THEN <<>>
    ELSE StmtHits(s, Head(ms)) \o StmtHitsOfAll(s, Tail(ms))

scan_sql(s) == StmtHitsOfAll(s, SQL_STMT_RE(s))

-----------------------------------------------------------------------------
(* scan_declarations                                                       *)

\* variant: the hit is anchored at the reference, fm.start("table")
RECURSIVE DeclQualHitsOf_reference_span(_)
DeclQualHitsOf_reference_span(fms) ==
    IF fms = <<>> THEN <<>>
    ELSE LET fm == Head(fms)
             tbl == upper(fm.table)
             fld == upper(fm.field)
         IN  (IF tbl \in DOMAIN OBSOLETE_FIELDS /\ InList(fld, OBSOLETE_FIELDS[tbl])
              THEN <<Finding(tbl, fld,
                             <<fm.end - Len(fm.field) - 1 - Len(fm.table), fm.end>>,
                             todo_comment(tbl, fld))>>
              ELSE <<>>)
             \o DeclQualHitsOf_reference_span(Tail(fms))

\* the loop of lines 127-136
RECURSIVE DeclQualHitsOf(_)
DeclQualHitsOf(fms) ==
    IF fms = <<>> THEN <<>>
    ELSE LET fm == Head(fms)
             tbl == upper(fm.table)
             fld == upper(fm.field)
         IN  (IF tbl \in DOMAIN OBSOLETE_FIELDS /\ InList(fld, OBSOLETE_FIELDS[tbl])
              THEN <<Finding(tbl, fld, <<fm.start, fm.end>>, todo_comment(tbl, fld))>>
              ELSE <<>>)
             \o DeclQualHitsOf(Tail(fms))

\* the loop of lines 139-147
RECURSIVE DeclDeHitsOf(_)
DeclDeHitsOf(fms) ==
    IF fms = <<>> THEN <<>>
    ELSE LET fm == Head(fms)
             fld == upper(fm.fieldname)
         IN  (IF fld \in OBSOLETE_FIELDNAMES
              THEN <<Finding(None, fld, <<fm.start, fm.end>>,
                             todo_comment_dataelement(fld))>>
              ELSE <<>>)
             \o DeclDeHitsOf(Tail(fms))

DeclQualHits(s) == DeclQualHitsOf(DECLARATION_QUAL_RE(s))
DeclDeHits(s) == DeclDeHitsOf(DECLARATION_DE_RE(s))

\* variant: the two loops in the other order
scan_declarations_de_first(s) == DeclDeHits(s) \o DeclQualHits(s)

scan_declarations(s) == DeclQualHits(s) \o DeclDeHits(s)

-----------------------------------------------------------------------------
(* remediate_array, for one unit                                           *)

\* the dict of lines 161-172 and 176-187
SelectEntry(hit) ==
    [table |-> hit.table,
     field |-> hit.field,
     target_type |-> None,
     target_name |-> None,
     start_char_in_unit |-> hit.span[1],
     end_char_in_unit |-> hit.span[2],
     used_fields |-> IF hit.table # None
                     THEN <<hit.table \o <<45>> \o hit.field>>
                     ELSE <<hit.field>>,
     ambiguous |-> FALSE,
     suggested_fields |-> None,
     suggested_statement |-> hit.suggested_statement]

RECURSIVE SelectEntries(_)
SelectEntries(hits) ==
    IF hits = <<>> THEN <<>>
    ELSE <<SelectEntry(Head(hits))>> \o SelectEntries(Tail(hits))

\* lines 160-172: scan_sql(src), every hit appended
ScanSqlStep ==
    /\ pc = "scan_sql"
    /\ sql_hits' = scan_sql(code)
    /\ selects_metadata' = selects_metadata \o SelectEntries(sql_hits')
    /\ pc' = "scan_declarations"
    /\ UNCHANGED <<code, decl_hits, results>>

\* lines 175-187: scan_declarations(src), every hit appended
ScanDeclarationsStep ==
    /\ pc = "scan_declarations"
    /\ decl_hits' = scan_declarations(code)
    /\ selects_metadata' = selects_metadata \o SelectEntries(decl_hits')
    /\ pc' = "append"
    /\ UNCHANGED <<code, sql_hits, results>>

\* lines 189-191: the unit with its "selects" joins the results
AppendStep ==
    /\ pc = "append"
    /\ results' = Append(results, [code |-> code, selects |-> selects_metadata])
    /\ pc' = "done"
    /\ UNCHANGED <<code, sql_hits, decl_hits, selects_metadata>>

Next == ScanSqlStep \/ ScanDeclarationsStep \/ AppendStep

-----------------------------------------------------------------------------
(* Inputs: a unit's text is a concatenation of at most MaxChunks chunks    *)
(* of a small vocabulary.                                                  *)

MaxChunks == 4

RECURSIVE Concat(_)
Concat(chunks) == IF chunks = <<>> THEN <<>> ELSE Head(chunks) \o Concat(Tail(chunks))

Texts(vocab, n) ==
    UNION { {Concat(cs) : cs \in [1..k -> vocab]} : k \in 0..n }

\* the state on entry to the loop body of remediate_array
InitWith(texts) ==
    /\ code \in texts
    /\ pc = "scan_sql"
    /\ sql_hits = <<>>
    /\ decl_hits = <<>>
    /\ selects_metadata = <<>>
    /\ results = <<>>

DASH == <<45>>

\* "SELECT MEGRU "
SqlSelectMegru == <<83,69,76,69,67,84,32,77,69,71,82,85,32>>
\* "SELECT MARC-MEGRU "
SqlSelectQualified == <<83,69,76,69,67,84,32,77,65,82,67,45,77,69,71,82,85,32>>
\* "SELECT MATNR,Usequ. "
SqlSelectList == <<83,69,76,69,67,84,32,77,65,84,78,82,44,85,115,101,113,117,46,32>>
\* "SELECT MATNR "
SqlSelectMatnr == <<83,69,76,69,67,84,32,77,65,84,78,82,32>>
\* "FROM MARC "
SqlFromMarc == <<70,82,79,77,32,77,65,82,67,32>>
\* "FROM MARA "
SqlFromMara == <<70,82,79,77,32,77,65,82,65,32>>
\* "WHERE MEGRU = MARC-MEGRU "
SqlWhere == <<87,72,69,82,69,32,77,69,71,82,85,32,61,32,77,65,82,67,45,77,69,71,82,85,32>>

SqlVocab ==
    { SqlSelectMegru, SqlSelectQualified, SqlSelectList, SqlSelectMatnr,
      SqlFromMarc, SqlFromMara, SqlWhere }

\* units holding query statements
Init == InitWith(Texts(SqlVocab, MaxChunks))

Spec == Init /\ [][Next]_vars

\* "TYPE "
DeclType == <<84,89,80,69,32>>
\* "like "
DeclLike == <<108,105,107,101,32>>
\* "MARC-"
DeclMarc == <<77,65,82,67,45>>
\* "mard-"
DeclMard == <<109,97,114,100,45>>
\* "MEGRU"
DeclMegru == <<77,69,71,82,85>>
\* "lsobs "
DeclLsobs == <<108,115,111,98,115,32>>
\* "MATNR "
DeclMatnr == <<77,65,84,78,82,32>>

DeclVocab ==
    { DeclType, DeclLike, DeclMarc, DeclMard, DeclMegru, DeclLsobs, DeclMatnr }

\* units holding declarations
InitDecl == InitWith(Texts(DeclVocab, MaxChunks))

SpecDecl == InitDecl /\ [][Next]_vars

\* "select megru "
CaseSelect == <<115,101,108,101,99,116,32,109,101,103,114,117,32>>
\* "From Marc "
CaseFrom == <<70,114,111,109,32,77,97,114,99,32>>
\* the letter sharp s, U+00DF
CaseSharpS == <<223>>
\* "type mard-lsobs "
CaseType == <<116,121,112,101,32,109,97,114,100,45,108,115,111,98,115,32>>
\* "LIKE altsl "
CaseLike == <<76,73,75,69,32,97,108,116,115,108,32>>
\* "where marc-Megru "
CaseWhere == <<119,104,101,114,101,32,109,97,114,99,45,77,101,103,114,117,32>>

CaseVocab == { CaseSelect, CaseFrom, CaseSharpS, CaseType, CaseLike, CaseWhere }

\* units written in mixed letter case
InitCase == InitWith(Texts(CaseVocab, MaxChunks))

SpecCase == InitCase /\ [][Next]_vars

\* "SELECT MEGRU FROM MARC "
LineSelectMarc == <<83,69,76,69,67,84,32,77,69,71,82,85,32,70,82,79,77,32,77,65,82,67,32>>
\* "SELECT MARD-LSOBS FROM MARD "
LineSelectMard == <<83,69,76,69,67,84,32,77,65,82,68,45,76,83,79,66,83,32,70,82,79,77,32,77,65,82,68,32>>
\* "TYPE MARC-MEGRU "
LineTypeQualified == <<84,89,80,69,32,77,65,82,67,45,77,69,71,82,85,32>>
\* "LIKE ALTSL "
LineLikeElement == <<76,73,75,69,32,65,76,84,83,76,32>>
\* "DATA X "
LineData == <<68,65,84,65,32,88,32>>

LineVocab ==
    { LineSelectMarc, LineSelectMard, LineTypeQualified, LineLikeElement, LineData }

\* units holding whole statements, queries and declarations mixed
InitOrder == InitWith(Texts(LineVocab, MaxChunks))

SpecOrder == InitOrder /\ [][Next]_vars

-----------------------------------------------------------------------------
(* Vocabulary of the claims about scan_sql.                                *)

\* scan_sql has just returned
Scanned == pc = "scan_declarations"

\* scan_declarations has just returned
Declared == pc = "append"

\* the statement matches scan_sql iterates over
Matches == {SQL_STMT_RE(code)[k] : k \in DOMAIN SQL_STMT_RE(code)}

Reference(tbl, fld) == tbl \o DASH \o fld

IsStmtSpan(span) == \E m \in Matches : span = <<m.start, m.end>>

\* offsets of the SELECT keywords of the text
SelectStarts == {i \in 0..Len(code) : KeywordAt(code, i, SELECT)}

\* the statement that starts at SELECT keyword i runs to the next SELECT
\* keyword, or to the end of the text
StatementEnd(i) == Min({j \in SelectStarts : j > i} \cup {Len(code)})

FromsIn(i) == {j \in i..(StatementEnd(i) - 4) : KeywordAt(code, j, FROM)}

\* the source table of the statement at i is MARC or MARD
OnWatchedTable(i) == FromsIn(i) # {} /\ FromTableAt(code, Min(FromsIn(i)))

\* an obsolete field name occurs somewhere in the statement at i
MentionsObsolete(i) ==
    \E f \in OBSOLETE_FIELDNAMES :
        \E j \in i..(StatementEnd(i) - Len(f)) : LitAt(code, j, f)

\* every statement has one FROM clause
OneFromEach == \A i \in SelectStarts : Cardinality(FromsIn(i)) = 1

\* the whitespace/comma-separated tokens of a zone, by the index of their
\* first character
TokenStarts(z) ==
    {a \in 1..Len(z) : ~IsSeparator(z[a]) /\ (a = 1 \/ IsSeparator(z[a - 1]))}

TokenAt(z, a) ==
    SubSeq(z, a, Min({b \in a..Len(z) : b = Len(z) \/ IsSeparator(z[b + 1])}))

WithoutTrailingPeriod(t) ==
    IF t # <<>> /\ t[Len(t)] = 46 THEN SubSeq(t, 1, Len(t) - 1) ELSE t

\* tokens of zone z naming field f once a trailing period is dropped and
\* the token upper-cased
TokensNaming(z, f) ==
    {a \in TokenStarts(z) : upper(WithoutTrailingPeriod(TokenAt(z, a))) = f}

HitCount(h) == Cardinality({k \in DOMAIN sql_hits : sql_hits[k] = h})

-----------------------------------------------------------------------------
(* Claims about scan_sql, for the units of Spec.                           *)

\* C1: every finding scan_sql emits for a qualified reference TABLE-FIELD
\* carries a span into the scanned text whose characters are that reference
\* (the other findings carry the span of their statement match).
C1_QualifiedSpanPrecision ==
    Scanned =>
        \A k \in DOMAIN sql_hits :
            LET h == sql_hits[k]
            IN  \/ IsStmtSpan(h.span)
                \/ upper(Slice(code, h.span[1], h.span[2]))
                       = Reference(h.table, h.field)

\* C2: a statement whose source table is not MARC or MARD contributes no
\* finding: when the obsolete field names of the text occur only in
\* statements on other tables, scan_sql returns nothing.
C2_NoFalseWatchedTablePositive ==
    (/\ Scanned
     /\ OneFromEach
     /\ \A i \in SelectStarts : OnWatchedTable(i) => ~MentionsObsolete(i))
    => sql_hits = <<>>

\* C3: in a text whose statements have one FROM clause each, every
\* statement match starts at a SELECT keyword, ends at the next
\* SELECT keyword or at the end of the text, and holds no other SELECT
\* keyword in its zones.
C3_MultiStatementIsolation ==
    Scanned /\ OneFromEach =>
        \A m \in Matches :
            /\ KeywordAt(code, m.start, SELECT)
            /\ m.end = StatementEnd(m.start)
            /\ \A i \in (m.start + 1)..(m.end - 1) : ~KeywordAt(code, i, SELECT)

\* C4: in a statement match on table T, every token of the selection list
\* that names an obsolete field of T (a trailing period dropped, upper-cased)
\* produces a finding for T and that field with the span of the whole match.
C4_UnqualifiedSelectionList ==
    Scanned =>
        \A m \in Matches :
            LET T == upper(table_group(code, m))
            IN  \A i \in DOMAIN OBSOLETE_FIELDS[T] :
                    LET f == OBSOLETE_FIELDS[T][i]
                    IN  HitCount(Finding(T, f, <<m.start, m.end>>, todo_comment(T, f)))
                            >= Cardinality(TokensNaming(select_part(code, m), f))

\* a match whose selection list names an obsolete field by a token that is
\* not the bare upper-case name
C4_Witness ==
    /\ Scanned
    /\ \E m \in Matches :
           LET z == select_part(code, m)
           IN  \E a \in TokensNaming(z, USEQU) :
                   /\ TokenAt(z, a) # USEQU
                   /\ upper(table_group(code, m)) = MARC
                   /\ HitCount(Finding(MARC, USEQU, <<m.start, m.end>>,
                                       todo_comment(MARC, USEQU))) = 1

\* C10: a finding anchored at a statement match comes from a token of that
\* match's selection list; a field named only in the remainder, unqualified,
\* gives none.
C10_SelectionListOnly ==
    Scanned =>
        \A m \in Matches :
            \A k \in DOMAIN sql_hits :
                sql_hits[k].span = <<m.start, m.end>> =>
                    \E a \in TokenStarts(select_part(code, m)) :
                        upper(remove_periods(TokenAt(select_part(code, m), a)))
                            = sql_hits[k].field

\* a match on MARC whose remainder names MEGRU unqualified, and whose
\* selection list does not
C10_Witness ==
    /\ Scanned
    /\ \E m \in Matches :
           /\ upper(table_group(code, m)) = MARC
           /\ TokensNaming(rest_part(code, m), MEGRU) # {}
           /\ TokensNaming(select_part(code, m), MEGRU) = {}
           /\ \A k \in DOMAIN sql_hits : sql_hits[k].span # <<m.start, m.end>>

-----------------------------------------------------------------------------
(* Claims about scan_declarations, for the units of SpecDecl.              *)

\* the occurrences the two declaration scans locate, left to right
DeclQualMatches ==
    {DECLARATION_QUAL_RE(code)[k] : k \in DOMAIN DECLARATION_QUAL_RE(code)}

DeclDeMatches ==
    {DECLARATION_DE_RE(code)[k] : k \in DOMAIN DECLARATION_DE_RE(code)}

IsObsoleteOf(T, F) ==
    \/ T = MARC /\ F \in {MEGRU, USEQU, ALTSL, MDACH, DPLFS, DPLPU, DPLHO, FHORI}
    \/ T = MARD /\ F \in {DISKZ, LSOBS, LMINB, LBSTF}

FlattenedObsolete ==
    {MEGRU, USEQU, ALTSL, MDACH, DPLFS, DPLPU, DPLHO, FHORI,
     DISKZ, LSOBS, LMINB, LBSTF}

HasDeclHit(T, F, span) ==
    \E k \in DOMAIN decl_hits :
        /\ decl_hits[k].table = T
        /\ decl_hits[k].field = F
        /\ decl_hits[k].span = span

\* the span of the reference TABLE-FIELD that ends match fm
ReferenceSpan(fm) == <<fm.end - Len(fm.field) - 1 - Len(fm.table), fm.end>>

Overlap(a, b) == a[1] < b[2] /\ b[1] < a[2]

\* C5 as stated: a declaration keyword followed by TABLE-FIELD, the field
\* obsolete for the table, gives a finding for that table and field whose
\* span is the span of the reference TABLE-FIELD.
C5_SpanOfReference ==
    Declared =>
        \A fm \in DeclQualMatches :
            IsObsoleteOf(upper(fm.table), upper(fm.field)) =>
                HasDeclHit(upper(fm.table), upper(fm.field), ReferenceSpan(fm))

\* C5 amended: the finding's span is the whole declaration match: it starts
\* at the keyword TYPE or LIKE and ends with the reference TABLE-FIELD.
C5_DeclarationQualified ==
    Declared =>
        \A fm \in DeclQualMatches :
            IsObsoleteOf(upper(fm.table), upper(fm.field)) =>
                /\ HasDeclHit(upper(fm.table), upper(fm.field), <<fm.start, fm.end>>)
                /\ DeclKeywordAt(code, fm.start)
                /\ fm.start < ReferenceSpan(fm)[1]
                /\ upper(Slice(code, ReferenceSpan(fm)[1], fm.end))
                       = Reference(upper(fm.table), upper(fm.field))

\* a declaration on MARD-LSOBS, found and reported
C5_Witness ==
    /\ Declared
    /\ \E fm \in DeclQualMatches :
           /\ upper(fm.table) = MARD /\ upper(fm.field) = LSOBS
           /\ HasDeclHit(MARD, LSOBS, <<fm.start, fm.end>>)

C9_BothScansFire ==
    Declared =>
        \A k \in DOMAIN decl_hits :
            decl_hits[k].table # None =>
                \E j \in DOMAIN decl_hits :
                    /\ decl_hits[j].table = None
                    /\ decl_hits[j].field = decl_hits[k].field
                    /\ Overlap(decl_hits[j].span, decl_hits[k].span)

\* C9 amended: a qualified declaration of an obsolete field is reported once:
\* the unqualified scan reads the table name as the bare identifier at that
\* keyword, and no finding without table overlaps the qualified finding.
C9_QualifiedReportedOnce ==
    Declared =>
        \A k \in DOMAIN decl_hits :
            decl_hits[k].table # None =>
                /\ \A j \in DOMAIN decl_hits :
                       decl_hits[j].table = None =>
                           ~Overlap(decl_hits[j].span, decl_hits[k].span)
                /\ \A fm \in DeclDeMatches :
                       fm.start = decl_hits[k].span[1] =>
                           upper(fm.fieldname) = decl_hits[k].table

\* a qualified finding at a keyword the unqualified scan matched as well
C9_Witness ==
    /\ Declared
    /\ \E k \in DOMAIN decl_hits :
           /\ decl_hits[k].table # None
           /\ \E fm \in DeclDeMatches : fm.start = decl_hits[k].span[1]

-----------------------------------------------------------------------------
(* Claim about letter case, for the units of SpecCase.                     *)

IsAscii(s) == \A i \in DOMAIN s : s[i] < 128

\* C7 as stated: for every text, the two scans return what they return for
\* the upper-cased text.
C7_CaseInsensitive ==
    Declared =>
        /\ sql_hits = scan_sql(upper(code))
        /\ decl_hits = scan_declarations(upper(code))

\* C7 amended: for every ASCII text, the two scans return what they return
\* for the upper-cased text.
C7_CaseInsensitiveAscii ==
    Declared /\ IsAscii(code) =>
        /\ sql_hits = scan_sql(upper(code))
        /\ decl_hits = scan_declarations(upper(code))

\* an ASCII text with lower-case letters and findings of both scans
C7_Witness ==
    /\ Declared
    /\ IsAscii(code)
    /\ code # upper(code)
    /\ sql_hits # <<>>
    /\ decl_hits # <<>>

-----------------------------------------------------------------------------
(* Claim about the order of a unit's findings, for the units of SpecOrder. *)

RECURSIVE HitsBefore(_, _)
\* the number of hits of the statement matches before the k-th
HitsBefore(ms, k) ==
    IF k = 1 THEN 0
    ELSE HitsBefore(ms, k - 1) + Len(StmtHits(code, ms[k - 1]))

\* C8: the unit's list holds the query findings first, in the order of
\* their statements in the text, then the declaration findings, those with
\* a table before those without.
C8_DiscoveryOrder ==
    pc = "done" =>
        LET ms == SQL_STMT_RE(code)
        IN  /\ results[1].selects
                   = SelectEntries(sql_hits) \o SelectEntries(decl_hits)
            /\ \A k \in DOMAIN ms :
                   /\ k > 1 => ms[k - 1].start < ms[k].start
                   /\ SubSeq(sql_hits, HitsBefore(ms, k) + 1,
                             HitsBefore(ms, k) + Len(StmtHits(code, ms[k])))
                          = StmtHits(code, ms[k])
            /\ Len(sql_hits) = HitsBefore(ms, Len(ms) + 1)
            /\ \A i, j \in DOMAIN decl_hits :
                   i < j => ~(decl_hits[i].table = None /\ decl_hits[j].table # None)

\* findings of two statements, then of both declaration scans
C8_Witness ==
    /\ pc = "done"
    /\ Len(SQL_STMT_RE(code)) = 2
    /\ \A k \in 1..2 : StmtHits(code, SQL_STMT_RE(code)[k]) # <<>>
    /\ sql_hits[1].table # sql_hits[Len(sql_hits)].table
    /\ \E i, j \in DOMAIN decl_hits :
           decl_hits[i].table # None /\ decl_hits[j].table = None

====
